---- MODULE Spec2Model ----
(***************************************************************************)
(* OfflineManager V7 ("Snapshot" edition), src/offline_manager.js:176-331. *)
(*                                                                         *)
(* The engine is a set of async methods over two Dexie tables (data,       *)
(* outbox) and a remote Gateway.  Every `await` is a suspension point: a   *)
(* method is modelled as a task whose steps are the storage or gateway     *)
(* operations it awaits, each executed atomically (one auto-committed      *)
(* Dexie transaction, one gateway call), and steps of different tasks      *)
(* interleave freely.                                                      *)
(*                                                                         *)
(* Server ids are naturals >= 1; NoId (0) stands for an absent _id.  Every *)
(* server id is issued by the remote store and is longer than five         *)
(* characters, so hasServerId (line 206) is "the _id is present".          *)
(*                                                                         *)
(* A document is {_id, name} and, in the caller's hands and in an intent's  *)
(* payload, one attachment field `file`; the caller's data and the         *)
(* documents of the remote store carry no Dexie primary key `id`.  The     *)
(* records of the Local Store and of the remote store are modelled by _id  *)
(* and name alone.                                                         *)
(*                                                                         *)
(* The Gateway (datagateway.js) is modelled by its contract: a call either *)
(* rejects and changes nothing, or is applied by the remote store and      *)
(* resolves.  It can resolve only while the client is online.              *)
(*                                                                         *)
(* dispatched, applied, resp, calls and rejects are history variables: no  *)
(* action reads them.                                                      *)
(***************************************************************************)
EXTENDS Integers, Sequences, FiniteSets, TLC

\* ---------------------------------------------------------------- bounds
MaxWrites == 2      \* saveSmartDocument / clearSmartCollection calls in a run
MaxDrains == 2      \* syncOutbox invocations that pass the online check
MaxRefreshes == 1   \* refreshCache invocations

Collections == {"lists"}
Names == {"Eggs", "Eggs "}

\* the attachment field of a document a caller passes: absent, or a Blob / File
Files == {"none", "blob"}

NoId == 0

VARIABLES
  online,      \* navigator.onLine
  data,        \* db.data : set of [id, collection, _id, name]
  nextKey,     \* next auto-increment primary key of db.data ("++id")
  intents,     \* every intent ever added to db.outbox, indexed by its ++id
  outbox,      \* the ids of the intents currently in db.outbox
  remote,      \* the remote store behind the Gateway: set of [_id, name, collection]
  nextSid,     \* next server id the remote store issues
  op,          \* the user write in flight (saveSmartDocument / clearSmartCollection)
  drains,      \* syncOutbox invocations, in order of invocation
  refreshes,   \* refreshCache invocations, in order of invocation
  dispatched,  \* history: ids of the intents handed to the Gateway so far
  applied,     \* history: intent id -> number of successful gateway calls
  resp,        \* history: intent id -> set of server ids the Gateway returned for it
  calls,       \* history: the gateway calls made, as <<intent id, gateway operation>>
  rejects      \* history: intent id -> number of its calls the remote store rejected

vars == <<online, data, nextKey, intents, outbox, remote, nextSid, op, drains,
          refreshes, dispatched, applied, resp, calls, rejects>>

\* ------------------------------------------------------------- helpers

\* String.prototype.trim on the names of the model
Trim(n) == IF n = "Eggs " THEN "Eggs" ELSE n

Min(S) == CHOOSE x \in S : \A y \in S : x <= y

RECURSIVE SortedSeq(_)
SortedSeq(S) == IF S = {} THEN <<>> ELSE <<Min(S)>> \o SortedSeq(S \ {Min(S)})

\* record._id && typeof record._id === 'string' && record._id.length > 5
HasServerId(rec) == rec._id # NoId

\* Dexie: where(...).first() returns the match with the lowest primary key
FirstKey(S) == IF S = {} THEN 0 ELSE Min({r.id : r \in S})

NoDoc == [_id |-> NoId, name |-> "", file |-> "none"]

\* op.data is the caller's object, op.given its value when the call was made
\* (history), op.rec the method's local `record`
IdleOp == [pc |-> "idle", kind |-> "none", coll |-> "", data |-> NoDoc, given |-> NoDoc,
           rec |-> NoDoc, existing |-> 0]

\* ---------------------------------------------------------------- Init
Init ==
  /\ online \in BOOLEAN
  /\ data = {}
  /\ nextKey = 1
  /\ intents = <<>>
  /\ outbox = {}
  /\ remote = {}
  /\ nextSid = 1
  /\ op = IdleOp
  /\ drains = <<>>
  /\ refreshes = <<>>
  /\ dispatched = {}
  /\ applied = <<>>
  /\ resp = <<>>
  /\ calls = {}
  /\ rejects = <<>>

\* ------------------------------------------------------- connectivity
GoOffline ==
  /\ online
  /\ online' = FALSE
  /\ UNCHANGED <<data, nextKey, intents, outbox, remote, nextSid, op, drains,
                 refreshes, dispatched, applied, resp, calls, rejects>>

GoOnline ==
  /\ ~online
  /\ online' = TRUE
  /\ UNCHANGED <<data, nextKey, intents, outbox, remote, nextSid, op, drains,
                 refreshes, dispatched, applied, resp, calls, rejects>>

\* ------------------------------------------------------- syncOutbox
NewDrain == [pc |-> "read", items |-> <<>>, idx |-> 0, sid |-> NoId, target |-> 0]

\* mutant of SyncOutboxCalled: no connectivity check
SyncOutboxUnchecked == Append(drains, NewDrain)

\* a call of this.syncOutbox(): `if (!navigator.onLine) return;` and then the
\* outbox read is requested
SyncOutboxCalled == IF online THEN Append(drains, NewDrain) ELSE drains

\* a finished invocation keeps no state
DoneDrain == [NewDrain EXCEPT !.pc = "done"]

\* mutant of Advance: a failure ends the loop (break instead of continue)
AdvanceBreak(d, outcome) ==
  IF d.idx < Len(d.items) /\ outcome = "ok"
    THEN [d EXCEPT !.pc = "send", !.idx = d.idx + 1, !.sid = NoId, !.target = 0]
    ELSE DoneDrain

\* after the current item, whose gateway call ended with `outcome` ("ok" or
\* "fail"): the next iteration of the for loop, or the end
Advance(d, outcome) ==
  IF d.idx < Len(d.items)
    THEN [d EXCEPT !.pc = "send", !.idx = d.idx + 1, !.sid = NoId, !.target = 0]
    ELSE DoneDrain

\* ------------------------------------------------------- the Gateway
\* gateway.saveDocument(name, payload): create when the payload carries no
\* identity, update when it does; returns the stored document with its server id.
SavedId(p) == IF p._id = NoId THEN nextSid ELSE p._id

RemoteAfterSave(c, p) ==
  {d \in remote : ~(d.collection = c /\ d._id = SavedId(p))}
    \cup {[_id |-> SavedId(p), name |-> p.name, collection |-> c]}

\* gateway.getCollection(name)
GetCollection(c) == {[_id |-> d._id, name |-> d.name] : d \in {e \in remote : e.collection = c}}

\* ------------------------------------------------ saveSmartDocument
Intent(action, c, hasPayload, rec) ==
  [action |-> action, collection |-> c, hasPayload |-> hasPayload, payload |-> rec]

\* the server ids the caller can have seen
KnownIds == {r._id : r \in data} \ {NoId}

\* JSON.parse(JSON.stringify(data)): strings and ids come back as they were; a
\* Blob or File has no enumerable own property and comes back as the object {}
JsonCopy(d) == [d EXCEPT !.file = IF @ = "blob" THEN "object" ELSE @]

\* const record = JSON.parse(JSON.stringify(data)), before the first await
StartSave(c, d, pc, key) ==
  [pc |-> pc, kind |-> "save", coll |-> c, data |-> d, given |-> d, rec |-> JsonCopy(d),
   existing |-> key]

\* data without _id: STAP 2 is db.data.add({...record, collection})
SaveNewWith(c, n, f) ==
  /\ op.pc = "idle"
  /\ Len(intents) < MaxWrites
  /\ data' = data \cup {[id |-> nextKey, collection |-> c, _id |-> NoId, name |-> n]}
  /\ nextKey' = nextKey + 1
  /\ op' = StartSave(c, [_id |-> NoId, name |-> n, file |-> f], "enqueue", 0)
  /\ UNCHANGED <<online, intents, outbox, remote, nextSid, drains, refreshes,
                 dispatched, applied, resp, calls, rejects>>

SaveNew(c, n) == SaveNewWith(c, n, "none")

\* data with a server id: STAP 2 starts with where({collection, _id}).first()
SaveLookupWith(c, n, s, f) ==
  /\ op.pc = "idle"
  /\ Len(intents) < MaxWrites
  /\ HasServerId([_id |-> s, name |-> n])
  /\ op' = StartSave(c, [_id |-> s, name |-> n, file |-> f], "write",
                     FirstKey({r \in data : r.collection = c /\ r._id = s}))
  /\ UNCHANGED <<online, data, nextKey, intents, outbox, remote, nextSid, drains,
                 refreshes, dispatched, applied, resp, calls, rejects>>

SaveLookup(c, n, s) == SaveLookupWith(c, n, s, "none")

\* the caller changes its object while the call is suspended at an await
CallerMutates ==
  /\ op.kind = "save"
  /\ \E n \in Names :
       /\ n # op.data.name
       /\ op' = [op EXCEPT !.data.name = n]
  /\ UNCHANGED <<online, data, nextKey, intents, outbox, remote, nextSid, drains,
                 refreshes, dispatched, applied, resp, calls, rejects>>

\* mutant of SaveWrite: the write inserts whether or not the lookup found a record
SaveWriteAdds ==
  /\ op.pc = "write"
  /\ data' = data \cup {[id |-> nextKey, collection |-> op.coll,
                          _id |-> op.rec._id, name |-> op.rec.name]}
  /\ nextKey' = nextKey + 1
  /\ op' = [op EXCEPT !.pc = "enqueue"]
  /\ UNCHANGED <<online, intents, outbox, remote, nextSid, drains, refreshes,
                 dispatched, applied, resp, calls, rejects>>

\* db.data.update(existing.id, {...record, collection}) changes the record with
\* that key if it is (still) there; db.data.add(...) inserts under a fresh key
SaveWrite ==
  /\ op.pc = "write"
  /\ IF op.existing # 0
       THEN /\ data' = {IF r.id = op.existing
                          THEN [r EXCEPT !.collection = op.coll, !._id = op.rec._id,
                                         !.name = op.rec.name]
                          ELSE r : r \in data}
            /\ nextKey' = nextKey
       ELSE /\ data' = data \cup {[id |-> nextKey, collection |-> op.coll,
                                   _id |-> op.rec._id, name |-> op.rec.name]}
            /\ nextKey' = nextKey + 1
  /\ op' = [op EXCEPT !.pc = "enqueue"]
  /\ UNCHANGED <<online, intents, outbox, remote, nextSid, drains, refreshes,
                 dispatched, applied, resp, calls, rejects>>

\* STAP 3: db.outbox.add({action, collection, payload: record, timestamp})
SaveEnqueue ==
  /\ op.pc = "enqueue"
  /\ op.kind = "save"
  /\ intents' = Append(intents, Intent(IF HasServerId(op.rec) THEN "PUT" ELSE "POST",
                                       op.coll, TRUE, op.rec))
  /\ outbox' = outbox \cup {Len(intents) + 1}
  /\ applied' = Append(applied, 0)
  /\ resp' = Append(resp, {})
  /\ rejects' = Append(rejects, 0)
  /\ op' = [op EXCEPT !.pc = "return"]
  /\ UNCHANGED <<online, data, nextKey, remote, nextSid, drains, refreshes, dispatched,
                 calls>>

\* if (navigator.onLine) this.syncOutbox(); return record
SaveReturn ==
  /\ op.pc = "return"
  /\ op.kind = "save"
  /\ online => Len(drains) < MaxDrains
  /\ drains' = SyncOutboxCalled
  /\ op' = IdleOp
  /\ UNCHANGED <<online, data, nextKey, intents, outbox, remote, nextSid, refreshes,
                 dispatched, applied, resp, calls, rejects>>

\* ---------------------------------------------- clearSmartCollection
\* mutant of ClearDelete: only the records that carry a server id are deleted
ClearDeleteSynced(c) ==
  /\ op.pc = "idle"
  /\ Len(intents) < MaxWrites
  /\ data' = {r \in data : r.collection # c \/ r._id = NoId}
  /\ op' = [IdleOp EXCEPT !.pc = "enqueue", !.kind = "clear", !.coll = c]
  /\ UNCHANGED <<online, nextKey, intents, outbox, remote, nextSid, drains, refreshes,
                 dispatched, applied, resp, calls, rejects>>

\* await this.db.data.where({collection}).delete()
ClearDelete(c) ==
  /\ op.pc = "idle"
  /\ Len(intents) < MaxWrites
  /\ data' = {r \in data : r.collection # c}
  /\ op' = [IdleOp EXCEPT !.pc = "enqueue", !.kind = "clear", !.coll = c]
  /\ UNCHANGED <<online, nextKey, intents, outbox, remote, nextSid, drains, refreshes,
                 dispatched, applied, resp, calls, rejects>>

\* db.outbox.add({action: 'CLEAR', collection}): the intent has no payload
ClearEnqueue ==
  /\ op.pc = "enqueue"
  /\ op.kind = "clear"
  /\ intents' = Append(intents, Intent("CLEAR", op.coll, FALSE, NoDoc))
  /\ outbox' = outbox \cup {Len(intents) + 1}
  /\ applied' = Append(applied, 0)
  /\ resp' = Append(resp, {})
  /\ rejects' = Append(rejects, 0)
  /\ op' = [op EXCEPT !.pc = "return"]
  /\ UNCHANGED <<online, data, nextKey, remote, nextSid, drains, refreshes, dispatched,
                 calls>>

ClearReturn ==
  /\ op.pc = "return"
  /\ op.kind = "clear"
  /\ online => Len(drains) < MaxDrains
  /\ drains' = SyncOutboxCalled
  /\ op' = IdleOp
  /\ UNCHANGED <<online, data, nextKey, intents, outbox, remote, nextSid, refreshes,
                 dispatched, applied, resp, calls, rejects>>

\* -------------------------------------------------------- syncOutbox
\* a trigger other than a write (the manual drain, a connectivity-restored signal)
SyncOutbox ==
  /\ Len(drains) < MaxDrains
  /\ drains' = SyncOutboxCalled
  /\ UNCHANGED <<online, data, nextKey, intents, outbox, remote, nextSid, op, refreshes,
                 dispatched, applied, resp, calls, rejects>>

RECURSIVE ReverseSeq(_)
ReverseSeq(q) == IF q = <<>> THEN <<>> ELSE Append(ReverseSeq(Tail(q)), Head(q))

\* mutant of OutboxInOrder: the outbox read newest first
OutboxNewestFirst == ReverseSeq(SortedSeq(outbox))

\* db.outbox.orderBy('id').toArray()
OutboxInOrder == SortedSeq(outbox)

\* items = await db.outbox.orderBy('id').toArray(); if (items.length === 0) return
DrainRead(t) ==
  /\ drains[t].pc = "read"
  /\ drains' = [drains EXCEPT ![t] =
       IF outbox = {} THEN DoneDrain
       ELSE [@ EXCEPT !.pc = "send", !.items = OutboxInOrder, !.idx = 1]]
  /\ UNCHANGED <<online, data, nextKey, intents, outbox, remote, nextSid, op, refreshes,
                 dispatched, applied, resp, calls, rejects>>

CurrentId(d) == d.items[d.idx]

\* the gateway operation the drain calls for an intent: V7 has one call site,
\* this.gateway.saveDocument(item.collection, finalPayload), for every action
GatewayCall(it) == "saveDocument"

\* the call resolves: the remote store has applied the payload and returns the
\* stored document.  A CLEAR intent has no payload (finalPayload is undefined, the
\* for-in loop over it is empty): by its contract saveDocument creates, since the
\* payload carries no identity, and the stored document has no name.
DrainSendOk(t) ==
  /\ drains[t].pc = "send"
  /\ online
  /\ LET i == CurrentId(drains[t])
         it == intents[i]
     IN /\ remote' = RemoteAfterSave(it.collection, it.payload)
        /\ nextSid' = IF it.payload._id = NoId THEN nextSid + 1 ELSE nextSid
        /\ dispatched' = dispatched \cup {i}
        /\ calls' = calls \cup {<<i, GatewayCall(it)>>}
        /\ applied' = [applied EXCEPT ![i] = @ + 1]
        /\ resp' = [resp EXCEPT ![i] = @ \cup {SavedId(it.payload)}]
        /\ drains' = [drains EXCEPT ![t] =
             [@ EXCEPT !.sid = SavedId(it.payload),
                       !.pc = IF it.action = "POST" THEN "linkfind" ELSE "remove"]]
  /\ UNCHANGED <<online, data, nextKey, intents, outbox, op, refreshes, rejects>>

\* mutant of DrainSendFail: the failure path deletes the intent as well
DrainSendFailRemoves(t) ==
  /\ drains[t].pc = "send"
  /\ \E rejected \in BOOLEAN :
       /\ rejected => (online /\ rejects[CurrentId(drains[t])] < MaxDrains)
       /\ rejects' = [rejects EXCEPT ![CurrentId(drains[t])] =
                        IF rejected THEN @ + 1 ELSE @]
  /\ dispatched' = dispatched \cup {CurrentId(drains[t])}
  /\ calls' = calls \cup {<<CurrentId(drains[t]), GatewayCall(intents[CurrentId(drains[t])])>>}
  /\ outbox' = outbox \ {CurrentId(drains[t])}
  /\ drains' = [drains EXCEPT ![t] = Advance(@, "fail")]
  /\ UNCHANGED <<online, data, nextKey, intents, remote, nextSid, op, refreshes,
                 applied, resp>>

\* the gateway call throws: the request did not get through (transient), or the
\* remote store, reached while online, rejected it.  catch (err) logs it and
\* continues, whatever the error is
\* (rejections are counted up to MaxDrains per intent)
DrainSendFail(t) ==
  /\ drains[t].pc = "send"
  /\ \E rejected \in BOOLEAN :
       /\ rejected => (online /\ rejects[CurrentId(drains[t])] < MaxDrains)
       /\ rejects' = [rejects EXCEPT ![CurrentId(drains[t])] =
                        IF rejected THEN @ + 1 ELSE @]
  /\ dispatched' = dispatched \cup {CurrentId(drains[t])}
  /\ calls' = calls \cup {<<CurrentId(drains[t]), GatewayCall(intents[CurrentId(drains[t])])>>}
  /\ drains' = [drains EXCEPT ![t] = Advance(@, "fail")]
  /\ UNCHANGED <<online, data, nextKey, intents, outbox, remote, nextSid, op, refreshes,
                 applied, resp>>

\* _linkServerId: where({collection}).filter(no _id, same trimmed name).first()
LinkCandidates(c, p) ==
  {r \in data : r.collection = c /\ r._id = NoId /\ Trim(r.name) = Trim(p.name)}

DrainLinkFind(t) ==
  /\ drains[t].pc = "linkfind"
  /\ LET it == intents[CurrentId(drains[t])]
         k == FirstKey(LinkCandidates(it.collection, it.payload))
     IN drains' = [drains EXCEPT ![t] =
          [@ EXCEPT !.target = k, !.pc = IF k # 0 THEN "linkupdate" ELSE "remove"]]
  /\ UNCHANGED <<online, data, nextKey, intents, outbox, remote, nextSid, op, refreshes,
                 dispatched, applied, resp, calls, rejects>>

\* _linkServerId: db.data.update(localRecord.id, {_id: newServerId})
DrainLinkUpdate(t) ==
  /\ drains[t].pc = "linkupdate"
  /\ data' = {IF r.id = drains[t].target THEN [r EXCEPT !._id = drains[t].sid] ELSE r
                : r \in data}
  /\ drains' = [drains EXCEPT ![t] = [@ EXCEPT !.pc = "remove"]]
  /\ UNCHANGED <<online, nextKey, intents, outbox, remote, nextSid, op, refreshes,
                 dispatched, applied, resp, calls, rejects>>

\* mutant of DrainRemove: the delivered intent stays in the outbox
DrainRemoveKeeps(t) ==
  /\ drains[t].pc = "remove"
  /\ drains' = [drains EXCEPT ![t] = Advance(@, "ok")]
  /\ UNCHANGED <<online, data, nextKey, intents, outbox, remote, nextSid, op, refreshes,
                 dispatched, applied, resp, calls, rejects>>

\* await this.db.outbox.delete(item.id), then the next item
DrainRemove(t) ==
  /\ drains[t].pc = "remove"
  /\ outbox' = outbox \ {CurrentId(drains[t])}
  /\ drains' = [drains EXCEPT ![t] = Advance(@, "ok")]
  /\ UNCHANGED <<online, data, nextKey, intents, remote, nextSid, op, refreshes,
                 dispatched, applied, resp, calls, rejects>>

\* ------------------------------------- getSmartCollection / refreshCache
NewRefresh(c) == [pc |-> "fetch", coll |-> c, fresh |-> {}, pendingIds |-> {},
                  pendingNewNames |-> {}, deleted |-> {}]

\* a refresh that ended: what it fetched is dropped, what it deleted is kept
EndRefresh(rf, how) == [NewRefresh(rf.coll) EXCEPT !.pc = how, !.deleted = rf.deleted]

\* const identifier = item._id || `local-${item.id}`
Identifier(r) == IF r._id # NoId THEN <<"server", r._id>> ELSE <<"local", r.id>>

\* db.data.where({collection}).toArray(): the records of c by ascending primary key
LocalData(c) ==
  LET keys == SortedSeq({r.id : r \in {e \in data : e.collection = c}})
  IN [k \in DOMAIN keys |-> CHOOSE r \in data : r.id = keys[k]]

\* mutant of FilterSeen: nothing is filtered out
FilterSeenNone(q, seen) == q

\* localData.filter(item => { if (seen.has(identifier)) return false;
\*                            seen.add(identifier); return true; })
RECURSIVE FilterSeen(_, _)
FilterSeen(q, seen) ==
  IF q = <<>> THEN <<>>
  ELSE IF Identifier(Head(q)) \in seen
         THEN FilterSeen(Tail(q), seen)
         ELSE <<Head(q)>> \o FilterSeen(Tail(q), seen \cup {Identifier(Head(q))})

\* what getSmartCollection(c) returns
SmartCollection(c) == FilterSeen(LocalData(c), {})

\* getSmartCollection(c): the local read, then `if (navigator.onLine)
\* this.refreshCache(c)`, which requests gateway.getCollection(c)
GetSmartCollectionWithin(c, budget) ==
  /\ Len(refreshes) < budget
  /\ refreshes' = IF online THEN Append(refreshes, NewRefresh(c)) ELSE refreshes
  /\ UNCHANGED <<online, data, nextKey, intents, outbox, remote, nextSid, op, drains,
                 dispatched, applied, resp, calls, rejects>>

GetSmartCollection(c) == GetSmartCollectionWithin(c, MaxRefreshes)

\* freshData = await this.gateway.getCollection(collectionName)
RefreshFetch(t) ==
  /\ refreshes[t].pc = "fetch"
  /\ online
  /\ refreshes' = [refreshes EXCEPT ![t] =
       [@ EXCEPT !.pc = "outbox", !.fresh = GetCollection(refreshes[t].coll)]]
  /\ UNCHANGED <<online, data, nextKey, intents, outbox, remote, nextSid, op, drains,
                 dispatched, applied, resp, calls, rejects>>

\* getCollection rejects: catch (err) { console.warn(...) }
RefreshFetchFail(t) ==
  /\ refreshes[t].pc = "fetch"
  /\ refreshes' = [refreshes EXCEPT ![t] = EndRefresh(@, "failed")]
  /\ UNCHANGED <<online, data, nextKey, intents, outbox, remote, nextSid, op, drains,
                 dispatched, applied, resp, calls, rejects>>

OutboxItems(c) == {i \in outbox : intents[i].collection = c}

\* new Set(outboxItems.map(i => i.payload._id).filter(id => id))
PendingIds(items) == {intents[i].payload._id : i \in items} \ {NoId}

\* new Set(outboxItems.filter(i => !i.payload._id).map(i => i.payload.name))
PendingNewNames(items) ==
  {intents[i].payload.name : i \in {j \in items : intents[j].payload._id = NoId}}

\* mutant of RefreshReadOutbox: an intent without payload is passed over
RefreshReadOutboxSkips(t) ==
  /\ refreshes[t].pc = "outbox"
  /\ LET items == {i \in OutboxItems(refreshes[t].coll) : intents[i].hasPayload}
     IN refreshes' = [refreshes EXCEPT ![t] =
          [@ EXCEPT !.pc = "delete", !.pendingIds = PendingIds(items),
                    !.pendingNewNames = PendingNewNames(items)]]
  /\ UNCHANGED <<online, data, nextKey, intents, outbox, remote, nextSid, op, drains,
                 dispatched, applied, resp, calls, rejects>>

\* outboxItems = await db.outbox.where({collection}).toArray(), then the two sets;
\* `i.payload._id` throws a TypeError on an intent without payload (CLEAR)
RefreshReadOutbox(t) ==
  /\ refreshes[t].pc = "outbox"
  /\ LET items == OutboxItems(refreshes[t].coll)
     IN refreshes' = [refreshes EXCEPT ![t] =
          IF \E i \in items : ~intents[i].hasPayload
            THEN EndRefresh(@, "failed")
            ELSE [@ EXCEPT !.pc = "delete", !.pendingIds = PendingIds(items),
                           !.pendingNewNames = PendingNewNames(items)]]
  /\ UNCHANGED <<online, data, nextKey, intents, outbox, remote, nextSid, op, drains,
                 dispatched, applied, resp, calls, rejects>>

\* mutant of Evicted: a record without a server id is never deleted
EvictedSynced(r, pIds, pNames) == r._id # NoId /\ r._id \notin pIds

\* the filter of the delete: true for the records to delete
Evicted(r, pIds, pNames) ==
  IF r._id = NoId THEN r.name \notin pNames ELSE r._id \notin pIds

\* db.data.where({collection}).filter(...).delete()
RefreshDelete(t) ==
  /\ refreshes[t].pc = "delete"
  /\ LET rf == refreshes[t]
         gone == {r \in data : r.collection = rf.coll
                                /\ Evicted(r, rf.pendingIds, rf.pendingNewNames)}
     IN /\ data' = data \ gone
        /\ refreshes' = [refreshes EXCEPT ![t] =
             [@ EXCEPT !.pc = "bulkPut", !.deleted = {r.id : r \in gone}]]
  /\ UNCHANGED <<online, nextKey, intents, outbox, remote, nextSid, op, drains,
                 dispatched, applied, resp, calls, rejects>>

\* taggedData = freshData.map(d => ({...d, collection})): the fetched documents
\* carry no primary key `id`, so bulkPut stores each under a fresh ++id
TaggedData(fresh, c, base) ==
  {[id |-> base + Cardinality({e \in fresh : e._id < d._id}), collection |-> c,
    _id |-> d._id, name |-> d.name] : d \in fresh}

\* await this.db.data.bulkPut(taggedData)
RefreshBulkPut(t) ==
  /\ refreshes[t].pc = "bulkPut"
  /\ data' = data \cup TaggedData(refreshes[t].fresh, refreshes[t].coll, nextKey)
  /\ nextKey' = nextKey + Cardinality(refreshes[t].fresh)
  /\ refreshes' = [refreshes EXCEPT ![t] = EndRefresh(@, "done")]
  /\ UNCHANGED <<online, intents, outbox, remote, nextSid, op, drains,
                 dispatched, applied, resp, calls, rejects>>

\* bulkPut rejects (a storage error): the catch logs it; the delete before it
\* was a transaction of its own and stays committed
RefreshBulkPutFail(t) ==
  /\ refreshes[t].pc = "bulkPut"
  /\ refreshes' = [refreshes EXCEPT ![t] = EndRefresh(@, "failed")]
  /\ UNCHANGED <<online, data, nextKey, intents, outbox, remote, nextSid, op, drains,
                 dispatched, applied, resp, calls, rejects>>

\* ---------------------------------------------------------------- Next
Next ==
  \/ GoOffline
  \/ GoOnline
  \/ \E c \in Collections, n \in Names : SaveNew(c, n)
  \/ \E c \in Collections, n \in Names, s \in KnownIds : SaveLookup(c, n, s)
  \/ SaveWrite
  \/ SaveEnqueue
  \/ SaveReturn
  \/ \E c \in Collections : ClearDelete(c)
  \/ ClearEnqueue
  \/ ClearReturn
  \/ SyncOutbox
  \/ \E t \in DOMAIN drains : DrainRead(t)
  \/ \E t \in DOMAIN drains : DrainSendOk(t)
  \/ \E t \in DOMAIN drains : DrainSendFail(t)
  \/ \E t \in DOMAIN drains : DrainLinkFind(t)
  \/ \E t \in DOMAIN drains : DrainLinkUpdate(t)
  \/ \E t \in DOMAIN drains : DrainRemove(t)
  \/ \E c \in Collections : GetSmartCollection(c)
  \/ \E t \in DOMAIN refreshes : RefreshFetch(t)
  \/ \E t \in DOMAIN refreshes : RefreshFetchFail(t)
  \/ \E t \in DOMAIN refreshes : RefreshReadOutbox(t)
  \/ \E t \in DOMAIN refreshes : RefreshDelete(t)
  \/ \E t \in DOMAIN refreshes : RefreshBulkPut(t)
  \/ \E t \in DOMAIN refreshes : RefreshBulkPutFail(t)

Spec == Init /\ [][Next]_vars

\* the save path with its caller: documents with an attachment, and a caller that
\* changes its object while saveSmartDocument is suspended
NextSnapshot ==
  \/ GoOffline
  \/ GoOnline
  \/ \E c \in Collections, n \in Names, f \in Files : SaveNewWith(c, n, f)
  \/ \E c \in Collections, n \in Names, s \in KnownIds, f \in Files :
       SaveLookupWith(c, n, s, f)
  \/ CallerMutates
  \/ SaveWrite
  \/ SaveEnqueue
  \/ SaveReturn
  \/ SyncOutbox
  \/ \E t \in DOMAIN drains : DrainRead(t)
  \/ \E t \in DOMAIN drains : DrainSendOk(t)
  \/ \E t \in DOMAIN drains : DrainSendFail(t)
  \/ \E t \in DOMAIN drains : DrainLinkFind(t)
  \/ \E t \in DOMAIN drains : DrainLinkUpdate(t)
  \/ \E t \in DOMAIN drains : DrainRemove(t)

SpecSnapshot == Init /\ [][NextSnapshot]_vars

\* reads that follow one another closely: one more getSmartCollection call than
\* in Next, next to new documents being saved; no drain gets to run
NextReads ==
  \/ GoOffline
  \/ GoOnline
  \/ \E c \in Collections, n \in Names : SaveNew(c, n)
  \/ SaveEnqueue
  \/ SaveReturn
  \/ \E c \in Collections : GetSmartCollectionWithin(c, MaxRefreshes + 1)
  \/ \E t \in DOMAIN refreshes : RefreshFetch(t)
  \/ \E t \in DOMAIN refreshes : RefreshFetchFail(t)
  \/ \E t \in DOMAIN refreshes : RefreshReadOutbox(t)
  \/ \E t \in DOMAIN refreshes : RefreshDelete(t)
  \/ \E t \in DOMAIN refreshes : RefreshBulkPut(t)
  \/ \E t \in DOMAIN refreshes : RefreshBulkPutFail(t)

SpecReads == Init /\ [][NextReads]_vars

\* a server id the caller holds from an earlier session: no record of the Local
\* Store carries it until the caller saves a document with it
StaleId == 99

\* the save path with documents whose server id the Local Store may not hold;
\* writes, drains and refreshes interleave
NextUpsert ==
  \/ GoOffline
  \/ GoOnline
  \/ \E c \in Collections, n \in Names : SaveNew(c, n)
  \/ \E c \in Collections, n \in Names, s \in KnownIds \cup {StaleId} : SaveLookup(c, n, s)
  \/ SaveWrite
  \/ SaveEnqueue
  \/ SaveReturn
  \/ \E c \in Collections : ClearDelete(c)
  \/ ClearEnqueue
  \/ ClearReturn
  \/ SyncOutbox
  \/ \E t \in DOMAIN drains : DrainRead(t)
  \/ \E t \in DOMAIN drains : DrainSendOk(t)
  \/ \E t \in DOMAIN drains : DrainSendFail(t)
  \/ \E t \in DOMAIN drains : DrainLinkFind(t)
  \/ \E t \in DOMAIN drains : DrainLinkUpdate(t)
  \/ \E t \in DOMAIN drains : DrainRemove(t)
  \/ \E c \in Collections : GetSmartCollection(c)
  \/ \E t \in DOMAIN refreshes : RefreshFetch(t)
  \/ \E t \in DOMAIN refreshes : RefreshFetchFail(t)
  \/ \E t \in DOMAIN refreshes : RefreshReadOutbox(t)
  \/ \E t \in DOMAIN refreshes : RefreshDelete(t)
  \/ \E t \in DOMAIN refreshes : RefreshBulkPut(t)
  \/ \E t \in DOMAIN refreshes : RefreshBulkPutFail(t)

SpecUpsert == Init /\ [][NextUpsert]_vars

\* syncOutbox invoked again, any number of times: an invocation that has ended
\* has left nothing behind, so the new one takes its place
SyncOutboxAgain(t) ==
  /\ drains[t].pc = "done"
  /\ online
  /\ drains' = [drains EXCEPT ![t] = NewDrain]
  /\ UNCHANGED <<online, data, nextKey, intents, outbox, remote, nextSid, op, refreshes,
                 dispatched, applied, resp, calls, rejects>>

\* one awaited step of the syncOutbox invocation t
DrainStep(t) ==
  /\ t \in DOMAIN drains
  /\ \/ DrainRead(t)
     \/ DrainSendOk(t)
     \/ DrainSendFail(t)
     \/ DrainLinkFind(t)
     \/ DrainLinkUpdate(t)
     \/ DrainRemove(t)

\* new documents saved and the outbox drained over and over
NextDelivery ==
  \/ GoOffline
  \/ GoOnline
  \/ \E c \in Collections, n \in Names : SaveNew(c, n)
  \/ SaveEnqueue
  \/ SaveReturn
  \/ SyncOutbox
  \/ \E t \in DOMAIN drains : SyncOutboxAgain(t)
  \/ \E t \in DOMAIN drains : DrainRead(t)
  \/ \E t \in DOMAIN drains : DrainSendOk(t)
  \/ \E t \in DOMAIN drains : DrainSendFail(t)
  \/ \E t \in DOMAIN drains : DrainLinkFind(t)
  \/ \E t \in DOMAIN drains : DrainLinkUpdate(t)
  \/ \E t \in DOMAIN drains : DrainRemove(t)

\* every awaited operation comes back: a pending db.outbox.add resolves, and each
\* syncOutbox invocation gets its next step, whose gateway call resolves or throws
SpecDelivery ==
  /\ Init
  /\ [][NextDelivery]_vars
  /\ WF_vars(SaveEnqueue)
  /\ \A t \in 1..MaxDrains : WF_vars(DrainStep(t))

\* ============================================================ properties

IntentIds == DOMAIN intents

DrainRunning(d) == d.pc \in {"send", "linkfind", "linkupdate", "remove"}

RefreshEnded(rf) == rf.pc \in {"done", "failed"}

\* no method is suspended at an await
Quiescent ==
  /\ op.pc = "idle"
  /\ \A t \in DOMAIN drains : drains[t].pc = "done"
  /\ \A t \in DOMAIN refreshes : RefreshEnded(refreshes[t])

\* the intents a running invocation has read and not yet finished with
Pending(d) == {d.items[k] : k \in d.idx..Len(d.items)}

\* the local records of collection c named n
RecordsNamed(c, n) == {r \in data : r.collection = c /\ r.name = n}

\* ------------------------------------------------------------------ C1
\* C1 (identity reconciliation): once everything has settled after a single
\* saveSmartDocument(c, {name: n}) whose create intent the drain delivered (the
\* Gateway returned server id s, the intent is gone) and no refresh has evicted a
\* record, the Local Store holds exactly one record named n in c, and it carries
\* _id = s.
IdentityReconciliation ==
  \A i \in IntentIds :
    ( /\ Quiescent
      /\ Len(intents) = 1
      /\ intents[i].action = "POST"
      /\ i \notin outbox
      /\ applied[i] >= 1
      /\ \A t \in DOMAIN refreshes : refreshes[t].deleted = {} )
    => LET recs == RecordsNamed(intents[i].collection, intents[i].payload.name)
       IN /\ Cardinality(recs) = 1
          /\ \A r \in recs : r._id \in resp[i]

\* ------------------------------------------------------------------ C2
\* the record r is the local record of an intent that is still in the outbox
HasPendingIntent(r) ==
  \E i \in outbox :
    /\ intents[i].collection = r.collection
    /\ intents[i].hasPayload
    /\ IF intents[i].payload._id = NoId
         THEN r._id = NoId /\ r.name = intents[i].payload.name
         ELSE r._id = intents[i].payload._id

\* C2 (non-destructive refresh): the delete step of refreshCache never removes a
\* local record whose intent is in the outbox at that moment.
NonDestructiveRefresh ==
  [][\A t \in DOMAIN refreshes :
       (refreshes[t].pc = "delete" /\ refreshes'[t].pc = "bulkPut")
         => \A r \in data \ data' : ~HasPendingIntent(r)]_vars

\* ------------------------------------------------------------------ C3
\* C3 (exactly-once delivery): the Gateway applies no intent more than once.
ExactlyOnceDelivery == \A i \in IntentIds : applied[i] <= 1

\* ------------------------------------------------------------------ C4
\* C4 (drain exclusivity): an invocation started while an earlier one is still
\* running never dispatches an intent that the earlier one has read and not
\* yet removed.
DrainExclusivity ==
  \A t1 \in DOMAIN drains, t2 \in DOMAIN drains :
    ( /\ t1 < t2
      /\ DrainRunning(drains[t1])
      /\ drains[t2].pc \in {"linkfind", "linkupdate", "remove"} )
    => CurrentId(drains[t2]) \notin Pending(drains[t1])

\* ------------------------------------------------------------------ C5
\* C5 (order preservation): of two intents on the same collection, the one
\* enqueued later has not been dispatched to the Gateway unless the earlier one
\* has been dispatched; dispatches happen one per step, so the earlier intent
\* is dispatched first.
OrderPreservation ==
  \A a \in IntentIds, b \in IntentIds :
    (a < b /\ intents[a].collection = intents[b].collection /\ b \in dispatched)
      => a \in dispatched

\* two invocations overlap, the earlier intent has failed and is still queued,
\* and the later intent has been dispatched
OrderPreservationWitness ==
  \E a \in IntentIds, b \in IntentIds :
    /\ a < b
    /\ intents[a].collection = intents[b].collection
    /\ {a, b} \subseteq dispatched
    /\ a \in outbox
    /\ applied[a] = 0
    /\ applied[b] = 1
    /\ \E t1 \in DOMAIN drains, t2 \in DOMAIN drains :
         t1 # t2 /\ DrainRunning(drains[t1]) /\ DrainRunning(drains[t2])

\* ------------------------------------------------------------------ C6
\* C6 (partial-failure resilience): when the gateway call of a run fails for an
\* intent, the outbox and the intent are left as they are and the run goes on
\* with the next intent it read (it ends only after the last one); when a run
\* finishes an intent whose call succeeded, that intent is out of the outbox.
PartialFailureResilience ==
  [][\A t \in DOMAIN drains :
       LET d == drains[t]
           e == drains'[t]
           i == CurrentId(d)
           next == IF d.idx < Len(d.items)
                     THEN e.pc = "send" /\ e.items = d.items /\ e.idx = d.idx + 1
                     ELSE e.pc = "done"
       IN \* the gateway call failed
          /\ (d.pc = "send" /\ e # d /\ applied'[i] = applied[i])
               => outbox' = outbox /\ intents' = intents /\ next
          \* the gateway call succeeded: the run stays on the intent until it
          \* has removed it
          /\ (d.pc = "send" /\ e # d /\ applied'[i] # applied[i])
               => e.pc \in {"linkfind", "remove"} /\ e.items = d.items /\ e.idx = d.idx
          /\ (d.pc \in {"linkfind", "linkupdate"} /\ e # d)
               => e.pc \in {"linkupdate", "remove"} /\ e.items = d.items /\ e.idx = d.idx
          /\ (d.pc = "remove" /\ e # d)
               => i \notin outbox' /\ next]_vars

\* a run whose first intent failed and is still queued has had its second
\* intent accepted by the Gateway and has removed it
PartialFailureWitness ==
  \E t \in DOMAIN drains :
    /\ drains[t].pc = "done"
    /\ Len(intents) >= 2
    /\ 1 \in outbox
    /\ applied[1] = 0
    /\ 1 \in dispatched
    /\ 2 \notin outbox
    /\ applied[2] = 1
    /\ Len(drains) = 1

\* ------------------------------------------------------------------ C7
\* C7: an intent that has left the outbox has had a successful gateway call.
RemovedOnlyAfterSuccess ==
  \A i \in IntentIds : i \notin outbox => applied[i] >= 1

\* an intent was delivered and removed while another one, whose call failed,
\* is still queued
RemovedOnlyAfterSuccessWitness ==
  \E i \in IntentIds, j \in IntentIds :
    /\ i \notin outbox
    /\ applied[i] = 1
    /\ j \in outbox
    /\ j \in dispatched
    /\ applied[j] = 0

\* ------------------------------------------------------------------ C8
\* C8: per collection and name there is at most one id-less local record and at
\* most one create intent in the outbox.
AtMostOneCreateIntent ==
  \A c \in Collections, n \in Names :
    /\ Cardinality({r \in RecordsNamed(c, n) : r._id = NoId}) <= 1
    /\ Cardinality({i \in outbox : /\ intents[i].action = "POST"
                                   /\ intents[i].collection = c
                                   /\ intents[i].payload.name = n}) <= 1

\* ------------------------------------------------------------------ C9
\* C9 (writes succeed locally): when saveSmartDocument returns, the Local Store
\* holds the saved document under its collection, and the last intent of the
\* outbox table is the one of this save.
WritesSucceedLocally ==
  (op.pc = "return" /\ op.kind = "save")
    => /\ \E r \in RecordsNamed(op.coll, op.rec.name) :
            op.rec._id # NoId => r._id = op.rec._id
       /\ Len(intents) >= 1
       /\ intents[Len(intents)].collection = op.coll
       /\ intents[Len(intents)].payload = op.rec

\* ----------------------------------------------------------------- C10
\* C10 (refresh is all-or-nothing): a refresh that failed has deleted no record.
RefreshAllOrNothing ==
  \A t \in DOMAIN refreshes : refreshes[t].pc = "failed" => refreshes[t].deleted = {}

\* C11 Smart Clear: the first step of clearSmartCollection(c) leaves the Local Store
\* with no record of c and touches neither the outbox nor the Gateway; its second
\* step appends exactly one intent, a CLEAR for c, and leaves the Local Store
\* alone.  Connectivity plays no part in either step.
SmartClear ==
  [][/\ (op.pc = "idle" /\ op'.kind = "clear")
          => /\ {r \in data' : r.collection = op'.coll} = {}
             /\ intents' = intents /\ outbox' = outbox
             /\ calls' = calls /\ remote' = remote
     /\ (op.kind = "clear" /\ op.pc = "enqueue" /\ op'.pc = "return")
          => /\ intents' = Append(intents, Intent("CLEAR", op.coll, FALSE, NoDoc))
             /\ outbox' = outbox \cup {Len(intents')}
             /\ data' = data
             /\ calls' = calls /\ remote' = remote]_vars

\* an offline clear after an offline save: the saved record is gone, both intents wait
SmartClearWitness ==
  /\ ~online /\ drains = <<>>
  /\ op.kind = "clear" /\ op.pc = "return"
  /\ Len(intents) = 2 /\ intents[1].action = "POST" /\ intents[2].action = "CLEAR"
  /\ outbox = {1, 2}
  /\ {r \in data : r.collection = op.coll} = {}

\* C12 a CLEAR intent supersedes the earlier pending intents of its collection:
\* once the gateway call of the CLEAR for c has succeeded, a drain that read the
\* outbox after that CLEAR had left it applies to the remote store no intent for
\* c that was enqueued before the CLEAR.
ClearSupersedes ==
  [][\A t \in DOMAIN drains : \A k \in IntentIds :
       (/\ drains[t].pc = "send"
        /\ intents[k].action = "CLEAR" /\ applied[k] >= 1
        /\ \A j \in DOMAIN drains[t].items : drains[t].items[j] # k
        /\ CurrentId(drains[t]) < k
        /\ intents[CurrentId(drains[t])].action # "CLEAR"
        /\ intents[CurrentId(drains[t])].collection = intents[k].collection)
         => applied'[CurrentId(drains[t])] = applied[CurrentId(drains[t])]]_vars

\* the gateway operation the specification assigns to an action
OperationFor(action) ==
  CASE action \in {"POST", "PUT"} -> "saveDocument"
    [] action = "DELETE" -> "deleteDocument"
    [] action = "CLEAR" -> "clearCollection"

\* C13 dispatch by action: every gateway call the drain has made for an intent
\* went to the operation of the intent's action (saveDocument for a write,
\* deleteDocument for a DELETE, clearCollection for a CLEAR).
DispatchByAction ==
  \A call \in calls : call[2] = OperationFor(intents[call[1]].action)

\* C14 rejected failures are not retried forever.  A bound on the re-sending of a
\* rejected intent needs the engine to remember the rejection, so in finite-run
\* form: a gateway call that the remote store rejects takes the intent out of the
\* outbox (dead letter) or changes the stored intent (a retry count, a marker);
\* a transient failure may leave both as they are.
RejectedNotRetriedForever ==
  [][\A i \in IntentIds :
       rejects'[i] > rejects[i] => (i \notin outbox' \/ intents'[i] # intents[i])]_vars

\* C15 deduplication on read: in every state of the Local Store, the sequence
\* getSmartCollection(c) returns holds records of c of the store, no two of them
\* with the same identity (the server id if present, else the local key), and
\* every identity the store holds for c is the identity of one of them.
DedupOnRead ==
  \A c \in Collections :
    LET res == SmartCollection(c)
    IN /\ \A j \in DOMAIN res : res[j] \in data /\ res[j].collection = c
       /\ \A j \in DOMAIN res : \A k \in DOMAIN res :
            j # k => Identifier(res[j]) # Identifier(res[k])
       /\ {Identifier(res[j]) : j \in DOMAIN res}
            = {Identifier(r) : r \in {e \in data : e.collection = c}}

\* two records of the store share a server id and the read returns one of them
DedupOnReadWitness ==
  \E c \in Collections : \E r1 \in data : \E r2 \in data :
    /\ r1.collection = c /\ r2.collection = c
    /\ r1.id < r2.id /\ r1._id # NoId /\ r1._id = r2._id
    /\ \E j \in DOMAIN SmartCollection(c) : SmartCollection(c)[j] = r1
    /\ \A j \in DOMAIN SmartCollection(c) : SmartCollection(c)[j] # r2

\* C16 snapshot immutability: the payload saveSmartDocument enqueues is the value
\* the caller's data had when the call was made, whatever the caller did to its
\* object since; and no step (a later save, a caller's change, a step of a drain)
\* changes an intent that is already stored.
SnapshotImmutability ==
  [][/\ \A i \in IntentIds : intents'[i] = intents[i]
     /\ (op.kind = "save" /\ op.pc = "enqueue" /\ op'.pc = "return")
          => intents'[Len(intents')].payload = op.given]_vars

\* the by-value half of C16 alone: the payload is the copy made when the call
\* started, and stored intents never change
SnapshotByValue ==
  [][/\ \A i \in IntentIds : intents'[i] = intents[i]
     /\ (op.kind = "save" /\ op.pc = "enqueue" /\ op'.pc = "return")
          => intents'[Len(intents')].payload = JsonCopy(op.given)]_vars

\* the intents an invocation is about to send, given what it read
ItemsOf(d) == {d.items[j] : j \in DOMAIN d.items}

OthersDone(t) == \A u \in DOMAIN drains : u # t => drains[u].pc = "done"

\* C17 idempotent drain: an invocation that reads an empty outbox ends there, with
\* no gateway call and nothing changed; and an invocation that reads the outbox
\* when every earlier invocation has finished is left with no intent that an
\* earlier invocation dispatched.
IdempotentDrain ==
  [][\A t \in DOMAIN drains :
       (drains[t].pc = "read" /\ drains'[t].pc # "read")
         => /\ outbox = {}
                 => /\ drains'[t].pc = "done"
                    /\ UNCHANGED <<data, outbox, remote, calls, dispatched>>
            /\ OthersDone(t) => ItemsOf(drains'[t]) \cap dispatched = {}]_vars

\* C17 as amended: an invocation that reads an empty outbox ends there, with no
\* gateway call and nothing changed; and an invocation that reads the outbox when
\* every earlier invocation has finished sends again only intents whose earlier
\* gateway calls all failed.
IdempotentDrainRetry ==
  [][\A t \in DOMAIN drains :
       (drains[t].pc = "read" /\ drains'[t].pc # "read")
         => /\ outbox = {}
                 => /\ drains'[t].pc = "done"
                    /\ UNCHANGED <<data, outbox, remote, calls, dispatched>>
            /\ OthersDone(t)
                 => \A i \in ItemsOf(drains'[t]) \cap dispatched : applied[i] = 0]_vars

\* the first invocation has finished, the second one is about to send an intent
\* that the first one sent without success
IdempotentDrainWitness ==
  /\ Len(drains) = 2 /\ drains[1].pc = "done" /\ drains[2].pc = "send"
  /\ op.pc = "idle" /\ Len(intents) = 1
  /\ CurrentId(drains[2]) \in dispatched
  /\ applied[CurrentId(drains[2])] = 0

\* C18 offline drain is a no-op: while the client is offline no step starts a
\* drain or a refresh, whether syncOutbox is called directly or by a write that
\* returns, or getSmartCollection is called; the return of a write then changes
\* neither the Local Store nor the outbox and calls no gateway operation.
OfflineNoOp ==
  [][~online
       => /\ Len(drains') = Len(drains)
          /\ Len(refreshes') = Len(refreshes)
          /\ (op.pc = "return" /\ op'.pc = "idle")
               => UNCHANGED <<data, outbox, remote, calls, nextKey>>]_vars

\* a write has completed offline: its intent waits and nothing was started
OfflineNoOpWitness ==
  /\ ~online /\ op.pc = "idle"
  /\ Len(intents) = 1 /\ outbox = {1}
  /\ drains = <<>> /\ refreshes = <<>> /\ calls = {}

\* C19 refresh exclusivity per collection: no two refreshCache executions for the
\* same collection are under way at the same time.
RefreshExclusivity ==
  \A t \in DOMAIN refreshes : \A u \in DOMAIN refreshes :
    (t # u /\ refreshes[t].coll = refreshes[u].coll)
      => (RefreshEnded(refreshes[t]) \/ RefreshEnded(refreshes[u]))

\* C20 deleteSmartDocument(c, id) is part of the engine's surface: whenever no
\* write is under way and the Local Store holds a document of c with server id
\* `id` next to other documents of c, the engine has a step that starts a write
\* and removes from the Local Store that document and nothing else.
DeleteSmartDocumentOffered ==
  \A r \in data :
    (/\ op.pc = "idle" /\ Len(intents) < MaxWrites
     /\ r._id # NoId
     /\ \E e \in data : e.collection = r.collection /\ e._id # r._id)
      => ENABLED (/\ Next
                  /\ op'.pc # "idle"
                  /\ data' = {e \in data : ~(e.collection = r.collection /\ e._id = r._id)})

\* C21 atomic write plus enqueue: while saveSmartDocument has written its record
\* to the Local Store and has not yet added its intent to the outbox, no
\* invocation of refreshCache or of syncOutbox takes a step.
AtomicWriteEnqueue ==
  [][(op.kind = "save" /\ op.pc = "enqueue")
       => /\ \A t \in DOMAIN refreshes : refreshes'[t] = refreshes[t]
          /\ \A t \in DOMAIN drains : drains'[t] = drains[t]]_vars

\* C22 the drain's only effect on the Local Store is attaching a server id: a step
\* of a syncOutbox invocation leaves the Local Store as it is, or it is the
\* update of _linkServerId after a successful create and changes one record of the
\* intent's collection that had no _id, setting its _id to the id the Gateway
\* returned and nothing else.
DrainOnlyLinks ==
  [][\A t \in DOMAIN drains :
       drains'[t] # drains[t]
         => \/ data' = data
            \/ /\ drains[t].pc = "linkupdate"
               /\ intents[CurrentId(drains[t])].action = "POST"
               /\ drains[t].sid \in resp[CurrentId(drains[t])]
               /\ \E r \in data :
                    /\ r._id = NoId
                    /\ r.collection = intents[CurrentId(drains[t])].collection
                    /\ data' = (data \ {r}) \cup {[r EXCEPT !._id = drains[t].sid]}]_vars

\* C23 a reconciliation miss is non-destructive: when _linkServerId finds no
\* record the Local Store is left as it is; and the delete of a refreshCache
\* removes no record that has no server id once its save has returned and no
\* intent of the outbox stands for it any more (its create was delivered and
\* the reconciliation did not reach it).
ReconciliationMissKeeps ==
  [][/\ \A t \in DOMAIN drains :
          (drains[t].pc = "linkfind" /\ drains'[t].pc = "remove") => data' = data
     /\ \A t \in DOMAIN refreshes :
          (refreshes[t].pc = "delete" /\ refreshes'[t].pc = "bulkPut" /\ op.pc = "idle")
            => \A r \in data :
                 (/\ r.collection = refreshes[t].coll
                  /\ r._id = NoId
                  /\ ~HasPendingIntent(r))
                   => r \in data']_vars

\* C24 upsert on save: the lookup of saveSmartDocument finds a record exactly when
\* a record of the collection carries the document's server id; when it found one,
\* the write changes that record under its own key and the number of records stays
\* the same; when it found none, or the document has no server id, the write adds
\* exactly one record under a key no record had.
Keys == {r.id : r \in data}

SyncOutboxInvoked ==
  \/ SyncOutbox
  \/ \E t \in DOMAIN drains : SyncOutboxAgain(t)

GatewayCallFails == \E t \in DOMAIN drains : DrainSendFail(t)

EventualDelivery ==
  (/\ <>[]online
   /\ <>[][~GatewayCallFails]_vars
   /\ []<><<SyncOutboxInvoked>>_vars)
    => <>[](/\ outbox = {}
            /\ \A i \in DOMAIN intents : applied[i] >= 1)

\* two creates are delivered and gone, the second before the first: the call for
\* the first failed without a rejection and a later call delivered it
EventualDeliveryWitness ==
  /\ outbox = {}
  /\ Len(intents) = 2
  /\ applied = <<1, 1>>
  /\ rejects = <<0, 0>>
  /\ resp[1] = {2}
  /\ resp[2] = {1}

\* C26 convergence after refresh: a refreshCache(c) that reads an outbox without
\* intents of c protects nothing, its delete leaves no record of c, and its bulkPut
\* into a collection left empty stores the fetched snapshot: afterwards the server
\* ids of the records of c are those of the snapshot, each once, and no record of
\* c is without a server id.
RecordsOf(S, c) == {r \in S : r.collection = c}

Reconciled(r) ==
  /\ r._id # NoId
  /\ \E d \in RecordsOf(remote, r.collection) : d._id = r._id
  /\ \E i \in DOMAIN intents :
       /\ i \notin outbox
       /\ intents[i].action = "POST"
       /\ intents[i].collection = r.collection
       /\ r._id \in resp[i]

RefreshKeepsRemote ==
  [][\A t \in DOMAIN refreshes :
       (refreshes[t].pc = "delete" /\ refreshes'[t].pc = "bulkPut")
         => \A r \in RecordsOf(data, refreshes[t].coll) :
              (Reconciled(r) /\ r._id \notin {d._id : d \in refreshes[t].fresh})
                => r \in data']_vars

\* C28 store-level identity uniqueness: in every state the Local Store holds at
\* most one record per collection and server id.
StoreIdentityUnique ==
  \A r1 \in data, r2 \in data :
    (r1.collection = r2.collection /\ r1._id = r2._id /\ r1._id # NoId) => r1 = r2

\* C29 refresh with a pending CLEAR: a refreshCache(c) that inspects the outbox
\* while it holds a CLEAR intent of c ends there as failed: it has deleted
\* nothing, the Local Store is as it was, and the refresh takes no further step.
ClearPending(c) == \E i \in OutboxItems(c) : intents[i].action = "CLEAR"

RefreshAbortsOnClear ==
  [][\A t \in DOMAIN refreshes :
       LET rf == refreshes[t]
           rg == refreshes'[t]
       IN /\ (rf.pc = "outbox" /\ rg # rf /\ ClearPending(rf.coll))
               => /\ rg.pc = "failed"
                  /\ rg.deleted = {}
                  /\ data' = data
                  /\ nextKey' = nextKey
          /\ rf.pc = "failed" => rg = rf]_vars

\* a refresh has failed while a CLEAR intent is queued: the remote collection
\* holds documents, the cleared Local Store holds none of them
RefreshAbortsOnClearWitness ==
  \E t \in DOMAIN refreshes :
    /\ refreshes[t].pc = "failed"
    /\ refreshes[t].deleted = {}
    /\ ClearPending(refreshes[t].coll)
    /\ online
    /\ Quiescent
    /\ RecordsOf(remote, refreshes[t].coll) # {}
    /\ RecordsOf(data, refreshes[t].coll) = {}

====
